---------------------------- MODULE Spec2Model ----------------------------
(* A model of the csv-reader crate: CsvReader::read / read_file           *)
(* (src/src/lib.rs), the schema! generated row parser (src/src/lib.rs),   *)
(* the field decoders and RowSpanIterator (src/src/parser/mod.rs) and     *)
(* DefaultRowParser (src/src/parser/default.rs).                          *)
(*                                                                        *)
(* One behaviour of the model is one call of a public entry point on one  *)
(* input: RowParser::parse on a row, a drain of RowSpanIterator over a    *)
(* row, CsvReader::read on a buffer, or CsvReader::read_file on a file.   *)
(* Bytes are their numeric values; a span is a sequence of bytes.         *)
EXTENDS Integers, Sequences, FiniteSets

VARIABLES
    span,       \* the byte buffer: the argument of read / parse, or the file's contents
    entry,      \* which public entry point was called
    parser,     \* the RowParser in use: "default", "schema" ("iterator" for the drain)
    fileExists, \* read_file: File::open succeeds
    mapFault,   \* read_file: the operating system refuses the mapping
    pc,         \* position in the call
    offset,     \* CsvReader::read: the scan offset into span
    row,        \* the row span handed to the row parser / iterator
    start,      \* DefaultRowParser::parse: start; RowSpanIterator: self.offset
    fields,     \* the entries of the record being built for row
    spans,      \* the field spans decoded (or yielded) so far for row
    result,     \* CsvReader::read: result (the records pushed so far)
    handed,     \* the row spans handed to RowParser::parse so far, in order
    ret         \* how the call ended: "none" while running, "Ok", "Err", "value", "panic"

vars == <<span, entry, parser, fileExists, mapFault, pc, offset, row, start,
          fields, spans, result, handed, ret>>

--------------------------------------------------------------------------
(* Bounds and the input alphabet                                          *)

MaxLen == 4
MaxYields == 6

NEWLINE == 10
SEMICOLON == 59

\* newline, space, '1', ';', 'a', and 0xFC (a byte that no UTF-8 text contains)
Bytes == {NEWLINE, 32, 49, SEMICOLON, 97, 252}

Buffers == UNION {[1..n -> Bytes] : n \in 0..MaxLen}

--------------------------------------------------------------------------
(* Slices and memchr                                                      *)

\* &s[from..to], from and to counted from 0, to exclusive
Slice(s, from, to) == SubSeq(s, from + 1, to)

\* &s[from..]
SliceFrom(s, from) == SubSeq(s, from + 1, Len(s))

\* memchr::memchr(b, s) is Some(_)
MemchrFound(b, s) == \E i \in 1..Len(s) : s[i] = b

\* the index in Some(index): the 0-based position of the first b in s
MemchrIndex(b, s) ==
    (CHOOSE i \in 1..Len(s) : s[i] = b /\ \A j \in 1..(i - 1) : s[j] # b) - 1

--------------------------------------------------------------------------
(* Field decoders                                                         *)

\* char::is_whitespace on the code points that the alphabet can produce
IsWhitespace(c) == c \in {9, 10, 11, 12, 13, 32}

RECURSIVE TrimStart(_)
TrimStart(s) ==
    IF s # <<>> /\ IsWhitespace(Head(s)) THEN TrimStart(Tail(s)) ELSE s

RECURSIVE TrimEnd(_)
TrimEnd(s) ==
    IF s # <<>> /\ IsWhitespace(s[Len(s)])
    THEN TrimEnd(SubSeq(s, 1, Len(s) - 1))
    ELSE s

\* str::trim
Trim(s) == TrimEnd(TrimStart(s))

\* String::from_utf8(span) is Ok: over the alphabet, every byte below 0x80 is a
\* one-byte character and 0xFC never occurs in UTF-8
Utf8Valid(s) == \A i \in 1..Len(s) : s[i] < 128

\* String::from_utf8_lossy: every invalid byte becomes U+FFFD
Utf8Lossy(s) == [i \in 1..Len(s) |-> IF s[i] < 128 THEN s[i] ELSE 65533]

IsDigit(c) == c \in 48..57

RECURSIVE DigitRun(_)
\* the number of leading decimal digits of s
DigitRun(s) == IF s # <<>> /\ IsDigit(Head(s)) THEN 1 + DigitRun(Tail(s)) ELSE 0

SkipSign(s) == IF s # <<>> /\ Head(s) \in {43, 45} THEN Tail(s) ELSE s

\* fast_float::parse(s) is Ok: [sign] digits [. digits] [(e|E) [sign] digits]
\* with at least one mantissa digit, the whole of s consumed
\* (the spellings inf, infinity and nan need letters the alphabet lacks)
FloatGrammar(s) ==
    LET t0 == SkipSign(s)
        n1 == DigitRun(t0)
        t1 == SliceFrom(t0, n1)
        dot == t1 # <<>> /\ Head(t1) = 46
        t2 == IF dot THEN Tail(t1) ELSE t1
        n2 == IF dot THEN DigitRun(t2) ELSE 0
        t3 == SliceFrom(t2, n2)
        ex == t3 # <<>> /\ Head(t3) \in {69, 101}
        t4 == IF ex THEN SkipSign(Tail(t3)) ELSE t3
        n3 == DigitRun(t4)
    IN  /\ n1 + n2 > 0
        /\ IF ex THEN n3 > 0 /\ n3 = Len(t4) ELSE t3 = <<>>

NoValue == [tag |-> "None", text |-> <<>>]

\* StringParser::parse: Ok(trimmed text) or Err
StringParserOk(s) == Utf8Valid(s)
StringParserValue(s) == [tag |-> "String", text |-> Trim(s)]

\* FloatParser::parse: Ok(number) or Err; the number is kept as the token parsed
FloatParserOk(s) == FloatGrammar(Trim(Utf8Lossy(s)))
FloatParserValue(s) == [tag |-> "Float", text |-> Trim(Utf8Lossy(s))]

\* the bytes of "true" and of "false"
TrueToken == <<116, 114, 117, 101>>
FalseToken == <<102, 97, 108, 115, 101>>

\* <bool as FromStr>::from_str(s) is Ok: s is exactly "true" or "false"
BoolFromStrOk(s) == s = TrueToken \/ s = FalseToken

\* BoolParser::parse without the trim
BoolParserOkUntrimmed(s) == BoolFromStrOk(Utf8Lossy(s))

\* BoolParser::parse: Ok(bool) or Err; the boolean is kept as the token that spells it
BoolParserOk(s) == BoolFromStrOk(Trim(Utf8Lossy(s)))
BoolParserValue(s) == [tag |-> "Bool", text |-> Trim(Utf8Lossy(s))]

\* try_parse_field with the two decoders tried in the other order
TryParseFieldStringFirst(s) ==
    IF s = <<>> THEN NoValue
    ELSE IF StringParserOk(s) THEN StringParserValue(s)
    ELSE IF FloatParserOk(s) THEN FloatParserValue(s)
    ELSE NoValue

\* DefaultRowParser::try_parse_field
TryParseField(s) ==
    IF s = <<>> THEN NoValue
    ELSE IF FloatParserOk(s) THEN FloatParserValue(s)
    ELSE IF StringParserOk(s) THEN StringParserValue(s)
    ELSE NoValue

\* try_parse::<T>: the decoder of type ty, Err turned into None
TryParse(ty, s) ==
    IF ty = "String"
    THEN (IF StringParserOk(s) THEN StringParserValue(s) ELSE NoValue)
    ELSE IF ty = "bool"
    THEN (IF BoolParserOk(s) THEN BoolParserValue(s) ELSE NoValue)
    ELSE (IF FloatParserOk(s) THEN FloatParserValue(s) ELSE NoValue)

\* schema!(pub MySchema, name:String, height:f64)
MySchema == <<"String", "f64">>

--------------------------------------------------------------------------
(* RowSpanIterator::next                                                  *)

IterNextIsSome(r, off) ==
    \/ MemchrFound(SEMICOLON, SliceFrom(r, off))
    \/ SliceFrom(r, off) # <<>>

\* the span in Some(span)
IterNextSpan(r, off) ==
    IF MemchrFound(SEMICOLON, SliceFrom(r, off))
    THEN Slice(r, off, off + MemchrIndex(SEMICOLON, SliceFrom(r, off)))
    ELSE SliceFrom(r, off)

\* self.offset after the call
IterNextOffset(r, off) ==
    IF MemchrFound(SEMICOLON, SliceFrom(r, off))
    THEN off + MemchrIndex(SEMICOLON, SliceFrom(r, off)) + 1
    ELSE off

RECURSIVE IterDrain(_, _, _)
\* the spans that the first n calls of next() yield from offset off, up to the
\* first None
IterDrain(r, off, n) ==
    IF n = 0 \/ ~IterNextIsSome(r, off)
    THEN <<>>
    ELSE <<IterNextSpan(r, off)>> \o IterDrain(r, IterNextOffset(r, off), n - 1)

--------------------------------------------------------------------------
(* Initial states                                                         *)

Configs == {
    <<"parse", "default">>, <<"parse", "schema">>, <<"iterate", "iterator">>,
    <<"read", "default">>, <<"read", "schema">>,
    <<"read_file", "default">>, <<"read_file", "schema">> }

\* the scan starting after the first line, as a header-skipping reader would
OffsetAfterHeader ==
    IF MemchrFound(NEWLINE, span) THEN MemchrIndex(NEWLINE, span) + 1 ELSE 0

\* let mut offset = 0
InitialOffset == 0

EntryPc(e, p) ==
    CASE e = "parse" -> p
      [] e = "iterate" -> "iter"
      [] e = "read" -> "read"
      [] e = "read_file" -> "open"

Init ==
    /\ span \in Buffers
    /\ \E c \in Configs : entry = c[1] /\ parser = c[2]
    /\ fileExists \in BOOLEAN
    /\ mapFault \in BOOLEAN
    /\ entry # "read_file" => fileExists /\ ~mapFault
    /\ ~fileExists => span = <<>> /\ ~mapFault
    /\ pc = EntryPc(entry, parser)
    /\ offset = InitialOffset
    /\ row = IF entry \in {"parse", "iterate"} THEN span ELSE <<>>
    /\ start = 0
    /\ fields = <<>>
    /\ spans = <<>>
    /\ result = <<>>
    /\ handed = <<>>
    /\ ret = "none"

--------------------------------------------------------------------------
(* CsvReader::read_file                                                   *)

\* File::open(path)? with the file missing or unreadable
OpenFail ==
    /\ pc = "open" /\ ~fileExists
    /\ pc' = "done" /\ ret' = "Err"
    /\ UNCHANGED <<span, entry, parser, fileExists, mapFault, offset, row, start,
                   fields, spans, result, handed>>

OpenOk ==
    /\ pc = "open" /\ fileExists
    /\ pc' = "map"
    /\ UNCHANGED <<span, entry, parser, fileExists, mapFault, offset, row, start,
                   fields, spans, result, handed, ret>>

\* MmapOptions::new().map(&file) is Ok: memmap refuses a mapping of length 0
MapIsOk == Len(span) > 0 /\ ~mapFault

\* .unwrap() on Err
MapUnwrapPanic ==
    /\ pc = "map" /\ ~MapIsOk
    /\ pc' = "done" /\ ret' = "panic"
    /\ UNCHANGED <<span, entry, parser, fileExists, mapFault, offset, row, start,
                   fields, spans, result, handed>>

MapOk ==
    /\ pc = "map" /\ MapIsOk
    /\ pc' = "read"
    /\ UNCHANGED <<span, entry, parser, fileExists, mapFault, offset, row, start,
                   fields, spans, result, handed, ret>>

--------------------------------------------------------------------------
(* CsvReader::read                                                        *)

\* the row slice with the newline left in
RowSliceWithNewline(s, off, index) == Slice(s, off, off + index + 1)

\* &span[offset..offset + index]
RowSlice(s, off, index) == Slice(s, off, off + index)

\* result.push(row)
PushRecord(res, rec) == Append(res, rec)

\* the loop finds a newline and calls Parser::parse on the bytes before it
ReadCall ==
    /\ pc = "read"
    /\ MemchrFound(NEWLINE, SliceFrom(span, offset))
    /\ LET index == MemchrIndex(NEWLINE, SliceFrom(span, offset))
       IN  /\ row' = RowSlice(span, offset, index)
           /\ handed' = Append(handed, RowSlice(span, offset, index))
    /\ start' = 0 /\ fields' = <<>> /\ spans' = <<>>
    /\ pc' = parser
    /\ UNCHANGED <<span, entry, parser, fileExists, mapFault, offset, result, ret>>

\* memchr finds no newline: Ok(result)
ReadDone ==
    /\ pc = "read"
    /\ ~MemchrFound(NEWLINE, SliceFrom(span, offset))
    /\ pc' = "done" /\ ret' = "Ok"
    /\ UNCHANGED <<span, entry, parser, fileExists, mapFault, offset, row, start,
                   fields, spans, result, handed>>

\* Parser::parse returns rec: to the caller of parse, or to the loop of read,
\* which pushes it and moves the offset past the newline
RowReturn(rec) ==
    IF entry = "parse"
    THEN /\ pc' = "done" /\ ret' = "value"
         /\ result' = <<rec>>
         /\ UNCHANGED offset
    ELSE /\ pc' = "read"
         /\ result' = PushRecord(result, rec)
         /\ offset' = offset + MemchrIndex(NEWLINE, SliceFrom(span, offset)) + 1
         /\ UNCHANGED ret

\* a panic unwinds the whole call
Panic ==
    /\ pc' = "done" /\ ret' = "panic"
    /\ UNCHANGED <<span, entry, parser, fileExists, mapFault, offset, row, start,
                   fields, spans, result, handed>>

--------------------------------------------------------------------------
(* DefaultRowParser::parse                                                *)

\* one turn of the while loop: a delimiter is found
DefaultFieldStep ==
    /\ pc = "default"
    /\ MemchrFound(SEMICOLON, SliceFrom(row, start))
    /\ LET index == MemchrIndex(SEMICOLON, SliceFrom(row, start))
           s == Slice(row, start, start + index)
       IN  /\ fields' = Append(fields, TryParseField(s))
           /\ spans' = Append(spans, s)
           /\ start' = start + index + 1
    /\ UNCHANGED <<span, entry, parser, fileExists, mapFault, pc, offset, row,
                   result, handed, ret>>

\* start < row.len() - 1, where row.len() - 1 is computed in usize: with
\* row.len() = 0 and overflow checks off it wraps to usize::MAX, above any start
TailIsPushed(r, st) == IF Len(r) = 0 THEN TRUE ELSE st < Len(r) - 1

\* the code after the loop, with the subtraction in range or wrapping
DefaultTail ==
    /\ pc = "default"
    /\ ~MemchrFound(SEMICOLON, SliceFrom(row, start))
    /\ IF TailIsPushed(row, start)
       THEN /\ spans' = Append(spans, SliceFrom(row, start))
            /\ fields' = Append(fields, TryParseField(SliceFrom(row, start)))
            /\ RowReturn(Append(fields, TryParseField(SliceFrom(row, start))))
       ELSE /\ UNCHANGED <<spans, fields>>
            /\ RowReturn(fields)
    /\ UNCHANGED <<span, entry, parser, fileExists, mapFault, row, start, handed>>

\* row.len() - 1 with row.len() = 0 and overflow checks on (a debug build):
\* "attempt to subtract with overflow"
DefaultOverflowPanic ==
    /\ pc = "default"
    /\ ~MemchrFound(SEMICOLON, SliceFrom(row, start))
    /\ Len(row) = 0
    /\ Panic

--------------------------------------------------------------------------
(* The RowParser generated by schema!                                     *)

\* field: try_parse(iterator.next().unwrap()), next() being Some
SchemaFieldStep ==
    /\ pc = "schema"
    /\ Len(fields) < Len(MySchema)
    /\ IterNextIsSome(row, start)
    /\ fields' = Append(fields,
                        TryParse(MySchema[Len(fields) + 1], IterNextSpan(row, start)))
    /\ spans' = Append(spans, IterNextSpan(row, start))
    /\ start' = IterNextOffset(row, start)
    /\ UNCHANGED <<span, entry, parser, fileExists, mapFault, pc, offset, row,
                   result, handed, ret>>

\* iterator.next().unwrap(), next() being None
SchemaUnwrapPanic ==
    /\ pc = "schema"
    /\ Len(fields) < Len(MySchema)
    /\ ~IterNextIsSome(row, start)
    /\ Panic

\* every field of the struct is set
SchemaReturn ==
    /\ pc = "schema"
    /\ Len(fields) = Len(MySchema)
    /\ RowReturn(fields)
    /\ UNCHANGED <<span, entry, parser, fileExists, mapFault, row, start, fields,
                   spans, handed>>

--------------------------------------------------------------------------
(* RowSpanIterator drained by a caller (for span in iterator)             *)

IterYield ==
    /\ pc = "iter"
    /\ Len(spans) < MaxYields
    /\ IterNextIsSome(row, start)
    /\ spans' = Append(spans, IterNextSpan(row, start))
    /\ start' = IterNextOffset(row, start)
    /\ UNCHANGED <<span, entry, parser, fileExists, mapFault, pc, offset, row,
                   fields, result, handed, ret>>

IterEnd ==
    /\ pc = "iter"
    /\ ~IterNextIsSome(row, start)
    /\ pc' = "done" /\ ret' = "value"
    /\ UNCHANGED <<span, entry, parser, fileExists, mapFault, offset, row, start,
                   fields, spans, result, handed>>

--------------------------------------------------------------------------

Next ==
    \/ OpenFail
    \/ OpenOk
    \/ MapUnwrapPanic
    \/ MapOk
    \/ ReadCall
    \/ ReadDone
    \/ DefaultFieldStep
    \/ DefaultTail
    \/ DefaultOverflowPanic
    \/ SchemaFieldStep
    \/ SchemaUnwrapPanic
    \/ SchemaReturn
    \/ IterYield
    \/ IterEnd

Spec == Init /\ [][Next]_vars

--------------------------------------------------------------------------
(* The Bool decoder called on one field span: BoolParser::parse directly, *)
(* or through try_parse::<bool>                                           *)

MaxCore == 4
MaxPad == 1

\* 'T', 'e', 'r', 't', 'u'
BoolLetters == {84, 101, 114, 116, 117}

\* every string of at most MaxCore letters, the spellings of false, and two
\* spans that are not text
BoolCores ==
    UNION {[1..n -> BoolLetters] : n \in 0..MaxCore}
    \cup {FalseToken, <<70, 97, 108, 115, 101>>, <<102, 97, 108, 115>>,
          <<102, 97, 32, 108, 115, 101>>, <<116, 114, 32, 117, 101>>,
          <<252>>, <<116, 114, 117, 101, 252>>}

Pads == UNION {[1..n -> {NEWLINE, 32}] : n \in 0..MaxPad}

BoolSpans == {l \o c \o r : l \in Pads, c \in BoolCores, r \in Pads}

InitBool ==
    /\ span \in BoolSpans
    /\ entry \in {"BoolParser::parse", "try_parse"}
    /\ parser = "bool"
    /\ fileExists = TRUE /\ mapFault = FALSE
    /\ pc = entry
    /\ offset = 0 /\ row = <<>> /\ start = 0
    /\ fields = <<>> /\ spans = <<>> /\ result = <<>> /\ handed = <<>>
    /\ ret = "none"

\* BoolParser::parse(span) returns Ok(b)
BoolParseOk ==
    /\ pc = "BoolParser::parse"
    /\ BoolParserOk(span)
    /\ fields' = <<BoolParserValue(span)>>
    /\ pc' = "done" /\ ret' = "Ok"
    /\ UNCHANGED <<span, entry, parser, fileExists, mapFault, offset, row, start,
                   spans, result, handed>>

\* BoolParser::parse(span) returns Err(e)
BoolParseErr ==
    /\ pc = "BoolParser::parse"
    /\ ~BoolParserOk(span)
    /\ pc' = "done" /\ ret' = "Err"
    /\ UNCHANGED <<span, entry, parser, fileExists, mapFault, offset, row, start,
                   fields, spans, result, handed>>

\* try_parse::<bool>(span): Ok(v) => Some(v), Err(_) => None
TryParseBool ==
    /\ pc = "try_parse"
    /\ fields' = <<TryParse("bool", span)>>
    /\ pc' = "done" /\ ret' = "value"
    /\ UNCHANGED <<span, entry, parser, fileExists, mapFault, offset, row, start,
                   spans, result, handed>>

NextBool ==
    \/ BoolParseOk
    \/ BoolParseErr
    \/ TryParseBool

SpecBool == InitBool /\ [][NextBool]_vars

--------------------------------------------------------------------------
(* What the claims speak of, defined from the input alone                 *)

\* the k-th smallest member of a set of positions
NthPos(S, k) == CHOOSE p \in S : Cardinality({q \in S : q <= p}) = k

NewlineAt(s) == {i \in 1..Len(s) : s[i] = NEWLINE}
NumLines(s) == Cardinality(NewlineAt(s))

\* the k-th newline-terminated line of s, without its newline
Line(s, k) ==
    SubSeq(s,
           IF k = 1 THEN 1 ELSE NthPos(NewlineAt(s), k - 1) + 1,
           NthPos(NewlineAt(s), k) - 1)

DelimAt(r) == {i \in 1..Len(r) : r[i] = SEMICOLON}
NumDelims(r) == Cardinality(DelimAt(r))

\* the k-th delimiter-bounded segment of r, k in 1..NumDelims(r) + 1
Segment(r, k) ==
    SubSeq(r,
           IF k = 1 THEN 1 ELSE NthPos(DelimAt(r), k - 1) + 1,
           IF k = NumDelims(r) + 1 THEN Len(r) ELSE NthPos(DelimAt(r), k) - 1)

Reading == entry \in {"read", "read_file"}

--------------------------------------------------------------------------
(* C1: the rows that read hands to the row parser are, in order, the byte *)
(* ranges before each newline: the k-th row handed is the k-th line, no   *)
(* row holds a newline, and when read returns every line has been handed  *)
(* and nothing else (the bytes after the last newline make no row).       *)
C1_RowsAreLines ==
    Reading =>
        /\ Len(handed) <= NumLines(span)
        /\ \A k \in 1..Len(handed) :
              /\ handed[k] = Line(span, k)
              /\ \A i \in 1..Len(handed[k]) : handed[k][i] # NEWLINE
        /\ ret = "Ok" => Len(handed) = NumLines(span)

\* read returned after two rows, one of them not empty, with an unterminated tail
C1_Witness ==
    /\ entry = "read" /\ ret = "Ok"
    /\ Len(handed) >= 2
    /\ \E k \in 1..Len(handed) : handed[k] # <<>>
    /\ span[Len(span)] # NEWLINE

--------------------------------------------------------------------------
--------------------------------------------------------------------------
(* C3: field segmentation yields (number of delimiters) + 1 fields, both  *)
(* in DefaultRowParser::parse (the entries of its result) and in          *)
(* RowSpanIterator (the spans it yields before it ends).                  *)
C3_FieldCount ==
    /\ (entry = "parse" /\ parser = "default" /\ ret = "value") =>
          Len(result[1]) = NumDelims(span) + 1
    /\ entry = "iterate" =>
          /\ Len(spans) <= NumDelims(span) + 1
          /\ ret = "value" => Len(spans) = NumDelims(span) + 1

--------------------------------------------------------------------------
(* C4: in DefaultRowParser::parse, a zero-length segment between two      *)
(* adjacent delimiters gives None at its position and every non-empty     *)
(* segment gives its decoded value at its own position.                   *)
C4_EmptyFieldIsNone ==
    (/\ entry = "parse" /\ parser = "default" /\ ret = "value"
     /\ \E k \in 2..NumDelims(span) : Segment(span, k) = <<>>) =>
        \A k \in 1..(NumDelims(span) + 1) :
            /\ (k \in 2..NumDelims(span) /\ Segment(span, k) = <<>>) =>
                  (Len(result[1]) >= k /\ result[1][k] = NoValue)
            /\ Segment(span, k) # <<>> =>
                  (Len(result[1]) >= k /\ result[1][k] = TryParseField(Segment(span, k)))

--------------------------------------------------------------------------
(* C5: untyped decoding of a field span: empty gives no value; otherwise  *)
(* Float if Float decoding succeeds; otherwise String (trimmed) if String *)
(* decoding succeeds; otherwise no value. A span in the Float grammar is  *)
(* never a String, and a String comes only from a non-empty span that     *)
(* Float decoding refused.                                                *)
C5_OrderedFallback ==
    parser = "default" =>
        /\ Len(fields) = Len(spans)
        /\ \A k \in 1..Len(fields) :
              LET s == spans[k]
                  v == fields[k]
              IN  /\ s = <<>> => v = NoValue
                  /\ (s # <<>> /\ FloatParserOk(s)) =>
                        v = [tag |-> "Float", text |-> Trim(Utf8Lossy(s))]
                  /\ (s # <<>> /\ ~FloatParserOk(s) /\ StringParserOk(s)) =>
                        v = [tag |-> "String", text |-> Trim(s)]
                  /\ (s # <<>> /\ ~FloatParserOk(s) /\ ~StringParserOk(s)) =>
                        v = NoValue
                  /\ v.tag = "String" => (s # <<>> /\ ~FloatParserOk(s))

\* one row decoded to a String and to a Float whose span had whitespace to trim
C5_Witness ==
    /\ parser = "default"
    /\ \E i, j \in 1..Len(fields) :
          /\ fields[i].tag = "Float" /\ Len(spans[i]) > Len(fields[i].text)
          /\ fields[j].tag = "String" /\ fields[j].text # <<>>

--------------------------------------------------------------------------
(* C6: schema binding is positional: for a row with at least as many      *)
(* fields as the schema declares, the parser returns a record of exactly  *)
(* the schema's number of slots, slot i being the decoder of schema field *)
(* i applied to the i-th field of the row; extra fields are ignored.      *)
C6_PositionalBinding ==
    (/\ entry = "parse" /\ parser = "schema" /\ pc = "done"
     /\ NumDelims(span) + 1 >= Len(MySchema)) =>
        /\ ret = "value"
        /\ Len(result[1]) = Len(MySchema)
        /\ \A i \in 1..Len(MySchema) :
              result[1][i] = TryParse(MySchema[i], Segment(span, i))

--------------------------------------------------------------------------
(* C7: for a row with fewer fields than the schema declares (an empty row *)
(* included) the schema parser still returns a record, and the slots of   *)
(* the missing trailing fields are None.                                  *)
C7_MissingFieldsAreNone ==
    (/\ entry = "parse" /\ parser = "schema" /\ pc = "done"
     /\ NumDelims(span) + 1 < Len(MySchema)) =>
        /\ ret = "value"
        /\ Len(result[1]) = Len(MySchema)
        /\ \A i \in (NumDelims(span) + 2)..Len(MySchema) : result[1][i] = NoValue

--------------------------------------------------------------------------
(* C8: read over an in-memory buffer has no failure path: it never aborts *)
(* and, when it ends, it has returned Ok.                                 *)
C8_ReadNeverFails ==
    entry = "read" =>
        /\ ret # "panic"
        /\ pc = "done" => ret = "Ok"

--------------------------------------------------------------------------
(* C9: read_file on an existing, openable zero-length file returns Ok     *)
(* with no records.                                                       *)
C9_EmptyFileIsOk ==
    (/\ entry = "read_file" /\ pc = "done"
     /\ fileExists /\ ~mapFault /\ Len(span) = 0) =>
        /\ ret = "Ok"
        /\ result = <<>>

--------------------------------------------------------------------------
(* C10: read_file returns Err exactly when the file cannot be opened or   *)
(* the mapping cannot be established, and such a failure never aborts.    *)
C10_FileFailuresAreErr ==
    (entry = "read_file" /\ pc = "done") =>
        /\ ret = "Err" <=> (~fileExists \/ ~MapIsOk)
        /\ (~fileExists \/ ~MapIsOk) => ret # "panic"

--------------------------------------------------------------------------
(* C11: BoolParser::parse succeeds exactly when the span is the token     *)
(* "true" or "false" between leading and trailing whitespace, and returns *)
(* the matching boolean; on every other span it fails, and try_parse      *)
(* gives None exactly on those spans.                                     *)

\* s is tok with whitespace, and nothing else, before and after it
IsPadded(s, tok) ==
    \E a \in 0..Len(s) :
        /\ a + Len(tok) <= Len(s)
        /\ SubSeq(s, a + 1, a + Len(tok)) = tok
        /\ \A i \in 1..a : s[i] \in {9, 10, 11, 12, 13, 32}
        /\ \A i \in (a + Len(tok) + 1)..Len(s) : s[i] \in {9, 10, 11, 12, 13, 32}

--------------------------------------------------------------------------
(* C12: the scan offsets stay within the buffer or row being scanned and  *)
(* every scan ends after at most (length of its input) steps: read hands  *)
(* at most Len(span) rows, DefaultRowParser::parse and RowSpanIterator    *)
(* produce at most Len(row) + 1 fields (one per delimiter found and one   *)
(* for the remainder).                                                    *)
C12_ScansEnd ==
    /\ offset <= Len(span)
    /\ start <= Len(row)
    /\ Reading => Len(handed) <= Len(span)
    /\ parser \in {"default", "iterator"} => Len(spans) <= Len(row) + 1

(* C12, the part about single steps: no step moves an offset back, and a  *)
(* step that finds a newline or a delimiter moves the offset forward.     *)
C12_StepsMoveForward ==
    [][/\ offset' >= offset
       /\ pc # "read" => start' >= start
       /\ (pc = "read" /\ pc' = "read") => offset' > offset
       /\ (pc \in {"default", "schema", "iter"} /\ pc' = pc
             /\ MemchrFound(SEMICOLON, SliceFrom(row, start))) => start' > start]_vars

--------------------------------------------------------------------------
(* C13: the two field segmenters agree: the field spans that              *)
(* DefaultRowParser::parse decodes for a row are, in number and content,  *)
(* the spans that RowSpanIterator yields for that row before it ends.     *)
C13_SegmentersAgree ==
    (entry = "parse" /\ parser = "default" /\ ret = "value") =>
        IterDrain(span, 0, Len(spans) + 1) = spans

==========================================================================
